---- MODULE Spec2Model ----
(***************************************************************************)
(* Model of the SDS011 driver of src/sds011_v2.py: one session (class      *)
(* SDS011) talking to a serial transport.  Bytes are naturals 0..255,      *)
(* byte strings are sequences (Python index i is TLA+ index i+1).  The     *)
(* device is the environment: every ser.read(size=10) may yield any byte   *)
(* string of Replies.  PM values are kept in tenths of a microgram, the    *)
(* integer that the code divides by 10.0.                                  *)
(***************************************************************************)
EXTENDS Integers, Sequences, FiniteSets, TLC

VARIABLES
    constructed,   \* __init__ has completed and the session object exists
    op,            \* the public operation in progress, or the last one finished
    stack,         \* activations of the driver's methods, innermost first
    pc,            \* "idle" | "get_reply" | "got_reply" | "returned"
    arg,           \* argument of the public operation in progress
    op_id,         \* op_id argument of the pending _get_reply (a Python value)
    timeout,       \* timeout argument of the pending _get_reply (a Python value)
    attempts,      \* local of wake()
    skips,         \* DATA frames the pending setting exchange has skipped
    reply,         \* value the last _get_reply returned to its caller
    ret,           \* value the last finished method returned to its caller
    result,        \* outcome of the last public operation
    written,       \* byte strings given to ser.write during the operation
    reads,         \* ser.read calls of the operation: timeout in effect, no bytes got
    raw,           \* bytes of the last ser.read
    ser_timeout,   \* ser.timeout
    requests,      \* stroke_service.py: where each /stroke request is
    wire           \* stroke_service.py: the ser.write and ser.read calls, in order

\* the session
session == <<constructed, op, stack, pc, arg, op_id, timeout, attempts, skips, reply,
             ret, result, written, reads, raw, ser_timeout>>
\* the HTTP service around it
service == <<requests, wire>>

vars == <<constructed, op, stack, pc, arg, op_id, timeout, attempts, skips, reply,
          ret, result, written, reads, raw, ser_timeout, requests, wire>>

(***************************************************************************)
(* Bounds of the model.                                                    *)
(***************************************************************************)
\* Setting bytes (byte 4) of reply frames range over 0..MaxSetting, and over
\* the values around the work period limit.
MaxSetting == 2
\* Largest number of pushed DATA frames skipped by one setting operation:
\* each skip is one more nested call of _get_reply (line 87), and the
\* interpreter's recursion limit ends the nesting with RecursionError (after
\* 996 frames with the default limit of 1000).
MaxSkips == 2
\* Requested work periods range over -2..MaxWorkTime, and over the values
\* around and beyond the work period limit.
MaxWorkTime == 2
\* Number of /stroke requests the HTTP service handles at once.
MaxRequests == 3

(***************************************************************************)
(* Protocol constants, src/sds011_v2.py lines 14-41.                       *)
(***************************************************************************)
HEAD == 170
CMD_ID == 180
TAIL == 171
REPORTING_MODE_SETTING == 2
QUERY_DATA == 4
SLEEP_SETTING == 6
WORK_PERIOD_SETTING == 8
READ_SETTING == 0
WRITE_SETTING == 1
ACTIVE_MODE == 0
QUERY_MODE == 1
SLEEP_MODE == 0
WORK_MODE == 1
CONTINUOUS_MODE == 0
SETTING_RESPONSE == 197
DATA_RESPONSE == 192
\* timeout=2, the default of __init__
DefaultTimeout == 2
\* id1=b'\xff', id2=b'\xff', the defaults of _execute
BroadcastId == 255
\* the limit of work_period's setter
MaxWorkPeriod == 30
\* the limit wake() compares attempts with
MaxAttempts == 5

(***************************************************************************)
(* Python values.  Every value is a record of one shape so that values of  *)
(* different Python types can be compared.                                 *)
(***************************************************************************)
PyNone == [t |-> "None", b |-> <<>>, n |-> 0, m |-> 0, s |-> ""]
PyBytes(bs) == [t |-> "bytes", b |-> bs, n |-> 0, m |-> 0, s |-> ""]
PyInt(i) == [t |-> "int", b |-> <<>>, n |-> i, m |-> 0, s |-> ""]
PyStr(str) == [t |-> "str", b |-> <<>>, n |-> 0, m |-> 0, s |-> str]
\* the tuple (pm25, pm10), both in tenths
PyTuple(pm25, pm10) == [t |-> "tuple", b |-> <<>>, n |-> pm25, m |-> pm10, s |-> ""]

\* Python truth value of v, as `if v` and `not v` use it
Truthy(v) ==
    CASE v.t = "None" -> FALSE
      [] v.t = "bytes" -> v.b # <<>>
      [] v.t = "int" -> v.n # 0
      [] v.t = "str" -> v.s # ""
      [] OTHER -> TRUE

RECURSIVE Sum(_)
Sum(bs) == IF bs = <<>> THEN 0 ELSE Head(bs) + Sum(Tail(bs))

Zeros(k) == [i \in 1..k |-> 0]

\* Python's bs[lo:hi] on a byte string
Slice(bs, lo, hi) ==
    LET h == IF hi > Len(bs) THEN Len(bs) ELSE hi
    IN  IF lo >= h THEN <<>> ELSE SubSeq(bs, lo + 1, h)

(***************************************************************************)
(* Frame encoding and decoding.                                            *)
(***************************************************************************)
\* Mutant of _execute: the checksum leaves out the operation id, cmd[0].
_execute_payload_checksum(cmd, id1, id2) ==
    LET body == cmd \o <<id1, id2>>
        checksum == Sum(Tail(body)) % 256
    IN  <<HEAD, CMD_ID>> \o body \o <<checksum, TAIL>>

\* _execute(cmd, id1, id2): the 19 bytes handed to ser.write
_execute(cmd, id1, id2) ==
    LET body == cmd \o <<id1, id2>>
        checksum == Sum(body) % 256
    IN  <<HEAD, CMD_ID>> \o body \o <<checksum, TAIL>>

\* Mutant of _decode_data: the two bytes of each field in the other order.
_decode_data_bigendian(r) ==
    PyTuple(256 * r[3] + r[4], 256 * r[5] + r[6])

\* _decode_data(raw): little-endian fields at raw[2:4] and raw[4:6], in tenths
_decode_data(r) ==
    PyTuple(r[3] + 256 * r[4], r[5] + 256 * r[6])

\* (sum(d for d in raw[2:8]) & 255) != raw[8]
ChecksumInvalid(r) == (Sum(Slice(r, 2, 8)) % 256) # r[9]

Return(v) == [k |-> "return", v |-> v, e |-> ""]
Throw(e) == [k |-> "raise", v |-> PyNone, e |-> e]
\* return self._get_reply(op_id=op_id): the next frame is read
Recurse == [k |-> "recurse", v |-> PyNone, e |-> ""]

\* Mutant of _get_reply_result: the checksum test of lines 79-80 is missing.
_get_reply_result_nochecksum(r, opid) ==
    IF r = <<>> THEN Return(PyBytes(r))
    ELSE IF Len(r) < 9 THEN Throw("IndexError")
    ELSE IF r[2] = DATA_RESPONSE
         THEN IF ~Truthy(opid) THEN Return(_decode_data(r)) ELSE Recurse
    ELSE IF /\ r[2] = SETTING_RESPONSE
            /\ Truthy(opid)
            /\ <<r[3]>> # opid.b
         THEN Throw("IOError: Response does not match operation!")
    ELSE Return(PyBytes(r))

\* What _get_reply does with the bytes r that ser.read gave it.
_get_reply_result(r, opid) ==
    IF r = <<>> THEN Return(PyBytes(r))
    ELSE IF Len(r) < 9 THEN Throw("IndexError")
    ELSE IF ChecksumInvalid(r) THEN Throw("IOError: Checksum invalid!")
    ELSE IF r[2] = DATA_RESPONSE
         THEN IF ~Truthy(opid) THEN Return(_decode_data(r)) ELSE Recurse
    ELSE IF /\ r[2] = SETTING_RESPONSE
            /\ Truthy(opid)
            /\ <<r[3]>> # opid.b
         THEN Throw("IOError: Response does not match operation!")
    ELSE Return(PyBytes(r))

\* reply[4] as the property getters and setters read it
ReplyByte4(v) ==
    IF v.t = "bytes" /\ Len(v.b) >= 5 THEN Return(PyInt(v.b[5]))
    ELSE Throw("IndexError")

(***************************************************************************)
(* The commands of the public operations.                                  *)
(***************************************************************************)
reporting_mode_read_cmd == <<REPORTING_MODE_SETTING, READ_SETTING>> \o Zeros(11)
reporting_mode_write_cmd(mode) ==
    <<REPORTING_MODE_SETTING, WRITE_SETTING>> \o mode \o Zeros(10)
\* Mutant of query_cmd: the padding of the two-byte commands, one byte short.
query_cmd_short == <<QUERY_DATA>> \o Zeros(11)

query_cmd == <<QUERY_DATA>> \o Zeros(12)
_sleep_cmd(mode, write) ==
    <<SLEEP_SETTING, IF write THEN WRITE_SETTING ELSE READ_SETTING, mode>> \o Zeros(10)
work_period_read_cmd == <<WORK_PERIOD_SETTING, READ_SETTING>> \o Zeros(11)
work_period_write_cmd(work_time) ==
    <<WORK_PERIOD_SETTING, WRITE_SETTING, work_time>> \o Zeros(10)

\* Mutant of work_period_clamp: the test of line 177 is missing.
work_period_clamp_nomax(work_time) ==
    LET w1 == IF work_time < 0 THEN PyBytes(<<CONTINUOUS_MODE>>) ELSE PyInt(work_time)
    IN  IF w1.t = "bytes" THEN Throw("TypeError") ELSE Return(w1)

\* Lines 175-179 of work_period's setter: the value after the two tests.
\* A negative request becomes the bytes object CONTINUOUS_MODE, and the
\* comparison of a bytes object with 30 raises TypeError.
work_period_clamp(work_time) ==
    LET w1 == IF work_time < 0 THEN PyBytes(<<CONTINUOUS_MODE>>) ELSE PyInt(work_time)
    IN  IF w1.t = "bytes" THEN Throw("TypeError")
        ELSE IF w1.n > MaxWorkPeriod THEN Return(PyInt(MaxWorkPeriod))
        ELSE Return(w1)

(***************************************************************************)
(* What the transport may deliver to one ser.read(size=10).                *)
(***************************************************************************)
\* A 10-byte frame; delta is added to the correct checksum.
Frame(head, type, b2, b3, b4, delta, tail) ==
    <<head, type, b2, b3, b4, 0, 0, 0, (b2 + b3 + b4 + delta) % 256, tail>>

ResponseTypes == {DATA_RESPONSE, SETTING_RESPONSE, 0}
Byte2s == {REPORTING_MODE_SETTING, SLEEP_SETTING, WORK_PERIOD_SETTING}
SettingBytes == (0..MaxSetting) \cup {MaxWorkPeriod - 1, MaxWorkPeriod, MaxWorkPeriod + 1}

\* Well-formed SETTING replies carrying every setting byte of the model.
SettingFrames ==
    { Frame(HEAD, SETTING_RESPONSE, b2, 0, b4, 0, TAIL) :
        b2 \in Byte2s, b4 \in SettingBytes }

\* Frames of every response type, their checksum right or off by one.
AnyFrames ==
    { Frame(HEAD, t, b2, 0, 1, d, TAIL) :
        t \in ResponseTypes, b2 \in Byte2s, d \in {0, 1} }

\* Frames with a wrong header or a wrong tail and a right checksum.
MisframedFrames ==
    { Frame(f[1], t, b2, 0, 1, 0, f[2]) :
        f \in {<<0, TAIL>>, <<HEAD, 0>>},
        t \in {DATA_RESPONSE, SETTING_RESPONSE}, b2 \in Byte2s }

\* The reading frame AA C0 D4 04 3A 0A DB 0A A5 AB, whose bytes 2..7 sum to
\* 0x201, and the same frame with the checksum byte 0x01 of that sum.
ReadingFrames ==
    { <<HEAD, DATA_RESPONSE, 212, 4, 58, 10, 219, 10, c, TAIL>> : c \in {165, 1} }

Frames == SettingFrames \cup AnyFrames \cup MisframedFrames \cup ReadingFrames

\* Incomplete frames: a read that timed out after 1 or 9 bytes.
ShortReplies ==
    { SubSeq(Frame(HEAD, t, WORK_PERIOD_SETTING, 0, 1, 0, TAIL), 1, k) :
        t \in {DATA_RESPONSE, SETTING_RESPONSE}, k \in {1, 9} }

Replies == {<<>>} \cup ShortReplies \cup Frames

(***************************************************************************)
(* Inputs of the public operations.                                        *)
(***************************************************************************)
\* work_time of work_period's setter
WorkTimes ==
    (-2..MaxWorkTime) \cup {MaxWorkPeriod - 1, MaxWorkPeriod, MaxWorkPeriod + 1, 45}
\* (use_query_mode, work_period) of __init__: the defaults, which
\* stroke_service.py uses, the arguments of log_to_firestore.py, and a
\* negative work period
InitArgs == {<<TRUE, 0>>, <<FALSE, 10>>, <<TRUE, -1>>}
\* mode of reporting_mode's setter
Modes == {<<ACTIVE_MODE>>, <<QUERY_MODE>>, <<REPORTING_MODE_SETTING>>}

\* the threads of the HTTP server, one per request in progress
Threads == 1..MaxRequests

NoArg == [mode |-> <<>>, work_time |-> 0, use_query_mode |-> FALSE]
NoResult == [k |-> "none", v |-> PyNone, e |-> ""]

(***************************************************************************)
(* Control: entering an exchange, returning and raising.                   *)
(***************************************************************************)
\* A frame "method@line" of the stack is a method suspended at that line.
\* self._execute(cmd) and then the call of self._get_reply(op_id=opid), made
\* by the method `frame` whose callers are `rest`; w is what was written before.
Exchange(frame, rest, w, cmd, opid) ==
    /\ written' = Append(w, _execute(cmd, BroadcastId, BroadcastId))
    /\ stack' = <<frame>> \o rest
    /\ pc' = "get_reply"
    /\ op_id' = opid
    /\ timeout' = PyNone
    /\ skips' = 0
    /\ result' = NoResult
    /\ ret' = PyNone
    /\ reply' = PyNone
    /\ raw' = <<>>

\* The innermost method returns v: to its caller, or to the user of the session.
Finish(v) ==
    /\ stack' = Tail(stack)
    /\ pc' = IF Tail(stack) = <<>> THEN "idle" ELSE "returned"
    /\ ret' = v
    /\ result' = IF Tail(stack) = <<>> THEN Return(v) ELSE result
    /\ UNCHANGED <<written, op_id, timeout, skips>>

\* An exception is raised; no method of the driver catches any.
\* (raw and reply are left to the action that raises.)
Raise(e, w) ==
    /\ stack' = <<>>
    /\ pc' = "idle"
    /\ ret' = PyNone
    /\ result' = Throw(e)
    /\ written' = w
    /\ UNCHANGED <<op_id, timeout, skips>>

\* A public operation is called on the idle session.
Begin(name, a) ==
    /\ constructed
    /\ pc = "idle"
    /\ op' = name
    /\ arg' = a
    /\ reads' = <<>>
    /\ attempts' = 0
    /\ UNCHANGED <<constructed, ser_timeout, service>>

\* What a method that returns or raises leaves alone.
Keep ==
    UNCHANGED <<constructed, op, arg, reads, raw, attempts, reply, ser_timeout, service>>
\* What a method that goes on to its next exchange leaves alone.
KeepOp == UNCHANGED <<constructed, op, arg, reads, attempts, ser_timeout, service>>

(***************************************************************************)
(* The bodies of the methods up to their first _get_reply.                 *)
(***************************************************************************)
call_sleep(mode, rest, w) ==
    Exchange("_sleep@147", rest, w, _sleep_cmd(mode, TRUE), PyBytes(<<SLEEP_SETTING>>))

call_query(rest, w) ==
    Exchange("query@142", rest, w, query_cmd, PyNone)

call_reporting_mode_get(rest, w) ==
    Exchange("reporting_mode@118", rest, w, reporting_mode_read_cmd, PyBytes(<<REPORTING_MODE_SETTING>>))

\* Mutant of call_reporting_mode_set: the test of line 126 comes after the
\* command is written.
call_reporting_mode_set_late(mode, rest, w) ==
    IF mode # <<ACTIVE_MODE>> /\ mode # <<QUERY_MODE>>
    THEN /\ Raise("ValueError", Append(w, _execute(reporting_mode_write_cmd(mode),
                                                     BroadcastId, BroadcastId)))
         /\ reply' = PyNone /\ raw' = <<>>
    ELSE Exchange("reporting_mode@131", rest, w, reporting_mode_write_cmd(mode),
                  PyBytes(<<REPORTING_MODE_SETTING>>))

call_reporting_mode_set(mode, rest, w) ==
    IF mode # <<ACTIVE_MODE>> /\ mode # <<QUERY_MODE>>
    THEN Raise("ValueError", w) /\ reply' = PyNone /\ raw' = <<>>
    ELSE Exchange("reporting_mode@131", rest, w, reporting_mode_write_cmd(mode),
                  PyBytes(<<REPORTING_MODE_SETTING>>))

call_work_period_get(rest, w) ==
    Exchange("work_period@169", rest, w, work_period_read_cmd, PyBytes(<<WORK_PERIOD_SETTING>>))

call_work_period_set(work_time, rest, w) ==
    LET c == work_period_clamp(work_time)
    IN  IF c.k = "raise"
        THEN Raise(c.e, w) /\ reply' = PyNone /\ raw' = <<>>
        ELSE Exchange("work_period@183", rest, w, work_period_write_cmd(c.v.n),
                      PyBytes(<<WORK_PERIOD_SETTING>>))

(***************************************************************************)
(* The public operations, called on the idle session.                      *)
(***************************************************************************)
Init ==
    /\ constructed = FALSE
    /\ op = "none"
    /\ stack = <<>>
    /\ pc = "idle"
    /\ arg = NoArg
    /\ op_id = PyNone
    /\ timeout = PyNone
    /\ attempts = 0
    /\ skips = 0
    /\ reply = PyNone
    /\ ret = PyNone
    /\ result = NoResult
    /\ written = <<>>
    /\ reads = <<>>
    /\ raw = <<>>
    /\ ser_timeout = DefaultTimeout
    /\ requests = [t \in Threads |-> "none"]
    /\ wire = <<>>

\* __init__ up to the first read of self.wake()
__init__ ==
    /\ ~constructed
    /\ pc = "idle"
    /\ \E a \in InitArgs :
          arg' = [mode |-> <<>>, work_time |-> a[2], use_query_mode |-> a[1]]
    /\ op' = "__init__"
    /\ reads' = <<>>
    /\ attempts' = 0
    /\ ser_timeout' = DefaultTimeout
    /\ call_sleep(WORK_MODE, <<"wake@154", "__init__@49">>, <<>>)
    /\ UNCHANGED <<constructed, service>>

wake ==
    /\ Begin("wake", NoArg)
    /\ call_sleep(WORK_MODE, <<"wake@154">>, <<>>)

sleep ==
    /\ Begin("sleep", NoArg)
    /\ call_sleep(SLEEP_MODE, <<"sleep@150">>, <<>>)

query ==
    /\ Begin("query", NoArg)
    /\ call_query(<<>>, <<>>)

reporting_mode_get ==
    /\ Begin("reporting_mode_get", NoArg)
    /\ call_reporting_mode_get(<<>>, <<>>)

reporting_mode_set ==
    \E mode \in Modes :
        /\ Begin("reporting_mode_set", [NoArg EXCEPT !.mode = mode])
        /\ call_reporting_mode_set(mode, <<>>, <<>>)

work_period_get ==
    /\ Begin("work_period_get", NoArg)
    /\ call_work_period_get(<<>>, <<>>)

work_period_set ==
    \E work_time \in WorkTimes :
        /\ Begin("work_period_set", [NoArg EXCEPT !.work_time = work_time])
        /\ call_work_period_set(work_time, <<>>, <<>>)

\* Mutant of read: the query command is written ahead, together with the
\* reporting-mode command.
read_pipelined ==
    /\ Begin("read", NoArg)
    /\ Exchange("reporting_mode@118", <<"read@190">>,
                <<_execute(query_cmd, BroadcastId, BroadcastId)>>,
                reporting_mode_read_cmd, PyBytes(<<REPORTING_MODE_SETTING>>))

\* read() up to the read of the reporting_mode getter it starts with
read ==
    /\ Begin("read", NoArg)
    /\ call_reporting_mode_get(<<"read@190">>, <<>>)

(***************************************************************************)
(* _get_reply: one ser.read and what follows from the bytes it got.        *)
(***************************************************************************)
\* Mutant of _get_reply: ser.timeout is not set back after the read.
_get_reply_noreset ==
    /\ pc = "get_reply"
    /\ \E r \in Replies :
        LET t == IF Truthy(timeout) THEN timeout.n ELSE ser_timeout
            out == _get_reply_result(r, op_id)
        IN  /\ reads' = Append(reads, [timeout |-> t, empty |-> (r = <<>>)])
            /\ raw' = r
            /\ ser_timeout' = t
            /\ CASE out.k = "return" ->
                      /\ reply' = out.v
                      /\ pc' = "got_reply"
                      /\ UNCHANGED <<stack, ret, result, written, op_id, timeout, skips>>
                 [] out.k = "raise" ->
                      /\ Raise(out.e, written)
                      /\ UNCHANGED reply
                 [] out.k = "recurse" /\ skips < MaxSkips ->
                      /\ timeout' = PyNone
                      /\ skips' = skips + 1
                      /\ UNCHANGED <<stack, pc, ret, result, written, op_id, reply>>
                 [] out.k = "recurse" /\ skips >= MaxSkips ->
                      /\ Raise("RecursionError", written)
                      /\ UNCHANGED reply
    /\ UNCHANGED <<constructed, op, arg, attempts, service>>

\* Mutant of _get_reply: the nesting of line 87 has no limit.
_get_reply_unlimited ==
    /\ pc = "get_reply"
    /\ \E r \in Replies :
        LET t == IF Truthy(timeout) THEN timeout.n ELSE ser_timeout
            out == _get_reply_result(r, op_id)
        IN  /\ reads' = Append(reads, [timeout |-> t, empty |-> (r = <<>>)])
            /\ raw' = r
            /\ ser_timeout' = DefaultTimeout
            /\ CASE out.k = "return" ->
                      /\ reply' = out.v
                      /\ pc' = "got_reply"
                      /\ UNCHANGED <<stack, ret, result, written, op_id, timeout, skips>>
                 [] out.k = "raise" ->
                      /\ Raise(out.e, written)
                      /\ UNCHANGED reply
                 [] out.k = "recurse" ->
                      /\ timeout' = PyNone
                      /\ skips' = skips + 1
                      /\ UNCHANGED <<stack, pc, ret, result, written, op_id, reply>>
    /\ UNCHANGED <<constructed, op, arg, attempts, service>>

\* One ser.read with the timeout in effect (lines 66-71), then lines 73-95;
\* the nested call of line 87 beyond the interpreter's limit raises
\* RecursionError.
_get_reply ==
    /\ pc = "get_reply"
    /\ \E r \in Replies :
        LET t == IF Truthy(timeout) THEN timeout.n ELSE ser_timeout
            out == _get_reply_result(r, op_id)
        IN  /\ reads' = Append(reads, [timeout |-> t, empty |-> (r = <<>>)])
            /\ raw' = r
            /\ ser_timeout' = DefaultTimeout
            /\ CASE out.k = "return" ->
                      /\ reply' = out.v
                      /\ pc' = "got_reply"
                      /\ UNCHANGED <<stack, ret, result, written, op_id, timeout, skips>>
                 [] out.k = "raise" ->
                      /\ Raise(out.e, written)
                      /\ UNCHANGED reply
                 [] out.k = "recurse" /\ skips < MaxSkips ->
                      /\ timeout' = PyNone
                      /\ skips' = skips + 1
                      /\ UNCHANGED <<stack, pc, ret, result, written, op_id, reply>>
                 [] out.k = "recurse" /\ skips >= MaxSkips ->
                      /\ Raise("RecursionError", written)
                      /\ UNCHANGED reply
    /\ UNCHANGED <<constructed, op, arg, attempts, service>>

(***************************************************************************)
(* The methods after their _get_reply has returned.                        *)
(***************************************************************************)
At(p, frame) == pc = p /\ stack # <<>> /\ Head(stack) = frame

\* _sleep, line 147
_sleep_return ==
    /\ At("got_reply", "_sleep@147")
    /\ Finish(reply)
    /\ Keep

\* query, line 142
query_return ==
    /\ At("got_reply", "query@142")
    /\ Finish(reply)
    /\ Keep

\* The string the reporting_mode getter returns for the setting byte b.
reporting_mode_name(b) ==
    IF <<b>> = <<QUERY_MODE>> THEN PyStr("sensor.QUERY_MODE")
    ELSE PyStr("sensor.ACTIVE_MODE")

\* reporting_mode getter, lines 119-122
reporting_mode_get_return ==
    /\ At("got_reply", "reporting_mode@118")
    /\ LET b == ReplyByte4(reply)
       IN  IF b.k = "raise" THEN Raise(b.e, written)
           ELSE Finish(reporting_mode_name(b.v.n))
    /\ Keep

\* reporting_mode setter, lines 132-133
reporting_mode_set_return ==
    /\ At("got_reply", "reporting_mode@131")
    /\ LET b == ReplyByte4(reply)
       IN  IF b.k = "raise" THEN Raise(b.e, written) ELSE Finish(b.v)
    /\ Keep

\* work_period getter, lines 170-171
work_period_get_return ==
    /\ At("got_reply", "work_period@169")
    /\ LET b == ReplyByte4(reply)
       IN  IF b.k = "raise" THEN Raise(b.e, written) ELSE Finish(b.v)
    /\ Keep

\* work_period setter, lines 184-185
work_period_set_return ==
    /\ At("got_reply", "work_period@183")
    /\ LET b == ReplyByte4(reply)
       IN  IF b.k = "raise" THEN Raise(b.e, written) ELSE Finish(b.v)
    /\ Keep

\* sleep, line 150
sleep_return ==
    /\ At("returned", "sleep@150")
    /\ Finish(ret)
    /\ Keep

\* wake, lines 155-163, after the _sleep of line 154
wake_retry ==
    /\ At("returned", "wake@154")
    /\ IF ~Truthy(ret) /\ attempts < MaxAttempts
       THEN /\ attempts' = attempts + 1
            /\ call_sleep(WORK_MODE, <<"wake@158">> \o Tail(stack), written)
       ELSE /\ IF ~Truthy(ret) THEN Finish(PyNone) ELSE Finish(ret)
            /\ UNCHANGED <<attempts, raw, reply>>
    /\ UNCHANGED <<constructed, op, arg, reads, ser_timeout, service>>

\* wake, line 163, after the _sleep of line 158
wake_return ==
    /\ At("returned", "wake@158")
    /\ Finish(ret)
    /\ Keep

\* Mutant of read_timeout: the second of slack is missing.
read_timeout_noslack(work_period) == work_period * 60

\* The timeout read() waits with: self.work_period * 60 + 1
read_timeout(work_period) == work_period * 60 + 1

\* read, lines 190-193, after the reporting_mode getter
read_dispatch ==
    /\ At("returned", "read@190")
    /\ IF ret = PyStr("sensor.QUERY_MODE")
       THEN call_query(<<"read@191">> \o Tail(stack), written)
       ELSE call_work_period_get(<<"read@193">> \o Tail(stack), written)
    /\ KeepOp

\* read, line 191, after query()
read_query_return ==
    /\ At("returned", "read@191")
    /\ Finish(ret)
    /\ Keep

\* Mutant of read_wait: read() sends the query command in Active mode too.
read_wait_querying ==
    /\ At("returned", "read@193")
    /\ stack' = <<"read@195">> \o Tail(stack)
    /\ pc' = "get_reply"
    /\ op_id' = PyNone
    /\ timeout' = PyInt(ret.n * 60 + 1)
    /\ skips' = 0
    /\ reply' = PyNone
    /\ raw' = <<>>
    /\ written' = Append(written, _execute(query_cmd, BroadcastId, BroadcastId))
    /\ UNCHANGED <<result, ret>>
    /\ KeepOp

\* read, lines 193-195, after the work_period getter; ret stays the value
\* the getter returned while read() waits
read_wait ==
    /\ At("returned", "read@193")
    /\ stack' = <<"read@195">> \o Tail(stack)
    /\ pc' = "get_reply"
    /\ op_id' = PyNone
    /\ timeout' = PyInt(read_timeout(ret.n))
    /\ skips' = 0
    /\ reply' = PyNone
    /\ raw' = <<>>
    /\ UNCHANGED <<written, result, ret>>
    /\ KeepOp

\* read, line 195
read_return ==
    /\ At("got_reply", "read@195")
    /\ Finish(reply)
    /\ Keep

\* __init__, line 50, after self.wake()
init_work_period ==
    /\ At("returned", "__init__@49")
    /\ call_work_period_set(arg.work_time, <<"__init__@50">> \o Tail(stack), written)
    /\ KeepOp

\* Mutant of init_reporting_mode: the two reporting modes swapped.
init_reporting_mode_swapped ==
    /\ At("returned", "__init__@50")
    /\ call_reporting_mode_set(IF arg.use_query_mode THEN <<ACTIVE_MODE>>
                                                     ELSE <<QUERY_MODE>>,
                               <<"__init__@51">> \o Tail(stack), written)
    /\ KeepOp

\* __init__, line 51, after the work_period setter
init_reporting_mode ==
    /\ At("returned", "__init__@50")
    /\ call_reporting_mode_set(IF arg.use_query_mode THEN <<QUERY_MODE>>
                                                     ELSE <<ACTIVE_MODE>>,
                               <<"__init__@51">> \o Tail(stack), written)
    /\ KeepOp

\* __init__ returns: the session exists
init_return ==
    /\ At("returned", "__init__@51")
    /\ Finish(PyNone)
    /\ constructed' = TRUE
    /\ UNCHANGED <<op, arg, reads, raw, attempts, reply, ser_timeout, service>>

Next ==
    \/ __init__
    \/ wake
    \/ sleep
    \/ query
    \/ read
    \/ reporting_mode_get
    \/ reporting_mode_set
    \/ work_period_get
    \/ work_period_set
    \/ _get_reply
    \/ _sleep_return
    \/ query_return
    \/ reporting_mode_get_return
    \/ reporting_mode_set_return
    \/ work_period_get_return
    \/ work_period_set_return
    \/ sleep_return
    \/ wake_retry
    \/ wake_return
    \/ read_dispatch
    \/ read_query_return
    \/ read_wait
    \/ read_return
    \/ init_work_period
    \/ init_reporting_mode
    \/ init_return

Spec == Init /\ [][Next]_vars

(***************************************************************************)
(* src/stroke_service.py: the module-level session `sensor` and the        *)
(* handler of GET /stroke, which the HTTP server runs in one thread per    *)
(* request.  Nothing in the handler or in the session takes a lock, so the *)
(* steps of the threads interleave freely.                                 *)
(***************************************************************************)
\* sensor = SDS011(DEVICE_LOCATION), line 11: the session is constructed
\* before the first request is served.
InitService ==
    /\ constructed = TRUE
    /\ op = "__init__"
    /\ stack = <<>>
    /\ pc = "idle"
    /\ arg = NoArg
    /\ op_id = PyNone
    /\ timeout = PyNone
    /\ attempts = 0
    /\ skips = 0
    /\ reply = PyNone
    /\ ret = PyNone
    /\ result = Return(PyNone)
    /\ written = <<>>
    /\ reads = <<>>
    /\ raw = <<>>
    /\ ser_timeout = DefaultTimeout
    /\ requests = [t \in Threads |-> "none"]
    /\ wire = <<>>

\* A request arrives: get_pen_stroke calls get_air_quality_reading, which
\* calls sensor.query() (lines 26 and 16).
get_pen_stroke ==
    /\ \E t \in Threads :
          /\ requests[t] = "none"
          /\ requests' = [requests EXCEPT ![t] = "query@141"]
    /\ UNCHANGED <<session, wire>>

\* query, line 141, in the thread of a request: self._execute(cmd)
query_execute ==
    /\ \E t \in Threads :
          /\ requests[t] = "query@141"
          /\ requests' = [requests EXCEPT ![t] = "query@142"]
          /\ wire' = Append(wire, [t |-> t, call |-> "write",
                                   bytes |-> _execute(query_cmd, BroadcastId, BroadcastId)])
    /\ UNCHANGED session

\* query, line 142, in the thread of a request: the ser.read of _get_reply
query_get_reply ==
    /\ \E t \in Threads :
          /\ requests[t] = "query@142"
          /\ requests' = [requests EXCEPT ![t] = "get_pen_stroke@27"]
          /\ wire' = Append(wire, [t |-> t, call |-> "read", bytes |-> <<>>])
    /\ UNCHANGED session

\* get_pen_stroke, lines 27-28: the response is sent
get_pen_stroke_return ==
    /\ \E t \in Threads :
          /\ requests[t] = "get_pen_stroke@27"
          /\ requests' = [requests EXCEPT ![t] = "done"]
    /\ UNCHANGED <<session, wire>>

NextService ==
    \/ get_pen_stroke
    \/ query_execute
    \/ query_get_reply
    \/ get_pen_stroke_return

SpecService == InitService /\ [][NextService]_vars

(***************************************************************************)
(* Properties.                                                             *)
(***************************************************************************)
\* The public operation `name` has finished.
Done(name) == op = name /\ pc = "idle" /\ result.k # "none"

\* The transport gave no bytes to any read of the operation.
Silent == \A i \in 1..Len(reads) : reads[i].empty

\* The 19 bytes of the commands, spelled out.
ModeReadBytes == <<170, 180, 2, 0, 0, 0, 0, 0, 0, 0, 0, 0, 0, 0, 0, 255, 255, 0, 171>>
QueryBytes == <<170, 180, 4, 0, 0, 0, 0, 0, 0, 0, 0, 0, 0, 0, 0, 255, 255, 2, 171>>
WorkPeriodReadBytes == <<170, 180, 8, 0, 0, 0, 0, 0, 0, 0, 0, 0, 0, 0, 0, 255, 255, 6, 171>>

\* The checksum byte of a 10-byte frame differs from the sum modulo 256 of
\* its bytes 2..7 (Python indices).
BadChecksum(r) == r[9] # (r[3] + r[4] + r[5] + r[6] + r[7] + r[8]) % 256

\* C1: wake() against a transport that never returns bytes writes exactly 5
\* commands, each followed by one read, and then fails with DeviceTimeout.
C1_WakeFiveAttempts ==
    (Done("wake") /\ Silent) =>
        /\ Len(written) = 5
        /\ Len(reads) = 5
        /\ result = Throw("DeviceTimeout")

\* C2: a 10-byte reply whose checksum byte differs from the sum modulo 256 of
\* bytes 2..7 ends the operation with the checksum error; nothing is returned.
C2_ChecksumRejected ==
    (Len(raw) = 10 /\ BadChecksum(raw)) =>
        /\ pc = "idle"
        /\ result.k = "raise"
        /\ result.e = "IOError: Checksum invalid!"

\* C2 witness: query() read a DATA frame with a checksum off by one and raised.
C2_Witness ==
    /\ Done("query")
    /\ Len(raw) = 10 /\ raw[2] = 192 /\ BadChecksum(raw)
    /\ result.k = "raise"

\* C3: query() whose one reply is a checksum-valid SETTING frame fails with a
\* protocol error instead of returning the frame.
C3_QueryRejectsSetting ==
    (Done("query") /\ Len(raw) = 10 /\ ~BadChecksum(raw) /\ raw[2] = 197) =>
        /\ result.k = "raise"
        /\ result.e = "IOError: Response does not match operation!"

\* C4: a reply that a setting operation accepts from _get_reply is a SETTING
\* frame whose operation id is the op_id of the command just issued.
C4_SettingReplyMatches ==
    (pc = "got_reply" /\ Truthy(op_id) /\ Len(raw) = 10) =>
        /\ raw[2] = 197
        /\ <<raw[3]>> = op_id.b

\* C5: setting a negative work period does not fail: the write command is
\* sent with setting byte 0x00.
C5_NegativeClamped ==
    (op = "work_period_set" /\ arg.work_time < 0) =>
        /\ Len(written) = 1
        /\ written[1][3] = 8 /\ written[1][4] = 1 /\ written[1][5] = 0
        /\ result # Throw("TypeError")

\* C6: the work period setter called with work_time >= 0 sends one
\* work-period write command whose setting byte is work_time, or 30 when
\* work_time > 30; the byte is in 0..30.
C6_WorkPeriodByte ==
    (op = "work_period_set" /\ arg.work_time >= 0) =>
        /\ Len(written) = 1
        /\ Len(written[1]) = 19
        /\ written[1][3] = 8 /\ written[1][4] = 1
        /\ written[1][5] = (IF arg.work_time > 30 THEN 30 ELSE arg.work_time)
        /\ written[1][5] \in 0..30

\* C6 witness: work_period = 45 wrote the byte 30 and the device confirmed 30.
C6_Witness ==
    /\ Done("work_period_set")
    /\ arg.work_time = 45
    /\ written[1][5] = 30
    /\ result = Return(PyInt(30))

\* read() is in, or back from, the query() of line 191.
InReadQuery == op = "read" /\ stack # <<>> /\ stack[Len(stack)] = "read@191"

\* read() is in the raw _get_reply of line 195.
InReadWait == op = "read" /\ stack = <<"read@195">>

\* C7 as stated: in Query mode read() has written exactly one command, the
\* query-data command, when it reads the reply it returns.
C7_ReadQueryOneWrite ==
    InReadQuery => written = <<QueryBytes>>

\* C7 as amended: in Query mode read() has written exactly two commands when
\* it reads the reply it returns, the reporting-mode read command and then
\* the query-data command, and one reply at least was read in between.
C7_ReadQueryTwoWrites ==
    InReadQuery =>
        /\ written = <<ModeReadBytes, QueryBytes>>
        /\ Len(reads) >= 1

\* C7 witness: query() has returned a reading to read().
C7_Witness ==
    /\ InReadQuery
    /\ pc = "returned"
    /\ ret.t = "tuple"

\* C8 as stated: in Active mode read() writes no command at all.
C8_ReadActiveNoWrite ==
    InReadWait => written = <<>>

\* C8 as amended: in Active mode read() writes exactly two commands, the
\* reporting-mode read command and the work-period read command, and no
\* query-data command; the read it then waits in follows no further write.
C8_ReadActiveTwoReads ==
    InReadWait =>
        /\ written = <<ModeReadBytes, WorkPeriodReadBytes>>
        /\ ~Truthy(op_id)
        /\ Len(reads) >= 2

\* C8 witness: the raw read of read() got a pushed DATA frame.
C8_Witness ==
    /\ InReadWait
    /\ pc = "got_reply"
    /\ reply.t = "tuple"

\* C9: the work period read() waits with is byte 4 of the work-period reply,
\* and the read that waits for the pushed frame runs with a timeout of
\* 60 times that work period plus 1 seconds.
C9_ActiveTimeout ==
    /\ (op = "read" /\ pc = "returned" /\ stack = <<"read@193">>) =>
           /\ Len(raw) >= 9
           /\ ret = PyInt(raw[5])
    /\ (InReadWait /\ pc = "got_reply") =>
           /\ ret.t = "int"
           /\ reads[Len(reads)].timeout = ret.n * 60 + 1
           /\ (ret.n = 1 => reads[Len(reads)].timeout = 61)
           /\ (ret.n = 0 => reads[Len(reads)].timeout = 1)

\* C9 witness: the device confirmed a work period of 1 and the read waited 61 s.
C9_Witness ==
    /\ InReadWait
    /\ pc = "got_reply"
    /\ ret = PyInt(1)
    /\ reads[Len(reads)].timeout = 61

\* C10: an operation other than wake() whose last read got fewer than 10
\* bytes fails with DeviceTimeout.
C10_ShortReadIsTimeout ==
    (/\ pc = "idle"
     /\ op \in {"sleep", "query", "read", "reporting_mode_get",
                "reporting_mode_set", "work_period_get", "work_period_set"}
     /\ reads # <<>>
     /\ Len(raw) < 10) =>
        result = Throw("DeviceTimeout")

\* The reading frame of C11 up to its checksum byte: AA C0 D4 04 3A 0A DB 0A.
ReadingPrefix == <<170, 192, 212, 4, 58, 10, 219, 10>>

\* The session read a 10-byte frame that starts with ReadingPrefix.
ReadReadingFrame == Len(raw) = 10 /\ SubSeq(raw, 1, 8) = ReadingPrefix

\* C11 as stated: query() that reads the frame AA C0 D4 04 3A 0A DB 0A A5 AB
\* returns pm2_5 = 124.4 and pm10 = 261.8 (1244 and 2618 tenths).
C11_ReadingAsStated ==
    (Done("query") /\ ReadReadingFrame) =>
        result = Return(PyTuple(1244, 2618))

\* C11 as amended: the little-endian fields of the frame are 0x04D4 = 1236 and
\* 0x0A3A = 2618 tenths, so the frame decodes to pm2_5 = 123.6 and
\* pm10 = 261.8 when its checksum byte is 0x01, the sum modulo 256 of its
\* bytes 2..7; with the checksum byte 0xA5 it is rejected and never decoded.
C11_ReadingDecoded ==
    /\ (ReadReadingFrame /\ raw[9] = 1 /\ ~Truthy(op_id) /\ pc = "got_reply") =>
           reply = PyTuple(1236, 2618)
    /\ (Done("query") /\ ReadReadingFrame /\ raw[9] = 1) =>
           result = Return(PyTuple(1236, 2618))
    /\ (ReadReadingFrame /\ raw[9] = 165) =>
           /\ pc = "idle"
           /\ result = Throw("IOError: Checksum invalid!")

\* C11 witness: query() returned the reading of the frame with checksum 0x01.
C11_Witness ==
    /\ Done("query")
    /\ raw = ReadingPrefix \o <<1, 171>>
    /\ result.k = "return"
    /\ result.v.t = "tuple"

\* C12: every command written is 19 bytes: header 0xAA, command id 0xB4, an
\* operation id, 12 payload bytes, the address bytes 0xFF 0xFF, the sum
\* modulo 256 of operation id, payload and address bytes, and the tail 0xAB.
C12_CommandFrame ==
    \A i \in 1..Len(written) :
        LET c == written[i]
        IN  /\ Len(c) = 19
            /\ c[1] = 170
            /\ c[2] = 180
            /\ c[3] \in {2, 4, 6, 8}
            /\ \A j \in 4..15 : c[j] \in 0..255
            /\ c[16] = 255
            /\ c[17] = 255
            /\ c[18] = (c[3] + c[4] + c[5] + c[6] + c[7] + c[8] + c[9] + c[10] + c[11]
                        + c[12] + c[13] + c[14] + c[15] + c[16] + c[17]) % 256
            /\ c[19] = 171

\* C12 witness: the three commands of a construction were written, the
\* work-period command with the setting byte 10.
C12_Witness ==
    /\ Done("__init__")
    /\ Len(written) = 3
    /\ written[2][3] = 8 /\ written[2][5] = 10
    /\ written[2][18] = 17

\* A step that hands a command to ser.write: the first command of an
\* operation, or one more command of the operation in progress.
Wrote ==
    \/ pc = "idle" /\ written' # <<>>
    \/ pc # "idle" /\ written' # written

\* C13 as stated: a command is written only when the reply to the previous
\* command has been consumed: the last read before the write, if there was
\* one, got bytes.
C13_ReplyConsumedBeforeWrite ==
    [][Wrote => (reads = <<>> \/ ~reads[Len(reads)].empty)]_vars

\* C13 as amended: a step writes one command at most, a write leaves the
\* session waiting in _get_reply, and the session stops waiting only by a
\* ser.read: there is a read between any two writes.  The read may have got
\* no bytes.
C13_ReadBetweenWrites ==
    [][/\ Wrote =>
            /\ written' = (IF pc = "idle" THEN <<written'[Len(written')]>>
                           ELSE Append(written, written'[Len(written')]))
            /\ pc # "get_reply"
            /\ pc' = "get_reply"
       /\ (pc = "get_reply" /\ pc' # "get_reply") => Len(reads') = Len(reads) + 1
       /\ (pc = "get_reply" /\ pc' = "get_reply") =>
            /\ written' = written
            /\ Len(reads') = Len(reads) + 1]_vars

\* C13 witness: wake() wrote its second command after a read that got no
\* bytes, and that command's read got a frame.
C13_Witness ==
    /\ op = "wake"
    /\ Len(written) = 2
    /\ Len(reads) = 2
    /\ reads[1].empty
    /\ ~reads[2].empty

\* The last read got 10 bytes whose header is not 0xAA or whose tail is not
\* 0xAB, and whose checksum is right.
ReadMisframed ==
    /\ Len(raw) = 10
    /\ (raw[1] # 170 \/ raw[10] # 171)
    /\ ~BadChecksum(raw)

\* C14: a 10-byte reply with a wrong header or a wrong tail and a right
\* checksum is rejected: the operation fails, and no reading and no setting
\* value comes from the frame.
C14_MisframedRejected ==
    ReadMisframed =>
        /\ pc # "got_reply"
        /\ (pc = "idle" => result.k = "raise")

\* The 19 bytes of the write commands, spelled out.
WakeBytes == <<170, 180, 6, 1, 1, 0, 0, 0, 0, 0, 0, 0, 0, 0, 0, 255, 255, 6, 171>>
WorkPeriodWriteBytes(w) ==
    <<170, 180, 8, 1, w, 0, 0, 0, 0, 0, 0, 0, 0, 0, 0, 255, 255, (7 + w) % 256, 171>>
ModeWriteBytes(m) ==
    <<170, 180, 2, 1, m, 0, 0, 0, 0, 0, 0, 0, 0, 0, 0, 255, 255, (1 + m) % 256, 171>>

\* The state of a device that obeys the commands cmds in order, from the
\* state st: a sleep-setting write sets power, a reporting-mode write sets mode.
RECURSIVE DeviceAfter(_, _)
DeviceAfter(cmds, st) ==
    IF cmds = <<>> THEN st
    ELSE LET c == Head(cmds)
             st1 == IF c[3] = 6 /\ c[4] = 1
                    THEN [st EXCEPT !.power = IF c[5] = 1 THEN "awake" ELSE "asleep"]
                    ELSE IF c[3] = 2 /\ c[4] = 1
                    THEN [st EXCEPT !.mode = IF c[5] = 1 THEN "query" ELSE "active"]
                    ELSE st
         IN  DeviceAfter(Tail(cmds), st1)

\* The commands of a construction with the arguments of arg, after the wake
\* commands.
ConfigCommands ==
    <<WorkPeriodWriteBytes(IF arg.work_time > 30 THEN 30 ELSE arg.work_time),
      ModeWriteBytes(IF arg.use_query_mode THEN 1 ELSE 0)>>

\* C15: a construction writes the wake command first (twice only if a read
\* of the first one got no bytes), then the work-period write command, then the
\* reporting-mode write command with the configured mode, and nothing else;
\* a device that obeys the commands of a finished construction is awake and
\* in the configured mode.
C15_ConstructionOrder ==
    (op = "__init__" /\ written # <<>>) =>
        LET k == IF Len(written) >= 2 /\ written[2] = WakeBytes THEN 2 ELSE 1
            config == SubSeq(written, k + 1, Len(written))
        IN  /\ written[1] = WakeBytes
            /\ k = 2 => \E i \in 1..Len(reads) : reads[i].empty
            /\ Len(config) <= 2
            /\ config = SubSeq(ConfigCommands, 1, Len(config))
            /\ (pc = "idle" /\ result.k = "return") =>
                   /\ constructed
                   /\ Len(config) = 2
                   /\ DeviceAfter(written, [power |-> "unknown", mode |-> "unknown"])
                        = [power |-> "awake",
                           mode |-> IF arg.use_query_mode THEN "query" ELSE "active"]

\* C15 witness: the construction of log_to_firestore.py (Active mode, work
\* period 10) against a device that answered the wake command.
C15_Witness ==
    /\ Done("__init__")
    /\ constructed
    /\ \A i \in 1..Len(reads) : ~reads[i].empty
    /\ written = <<WakeBytes, WorkPeriodWriteBytes(10), ModeWriteBytes(0)>>

\* The largest number of _execute/_get_reply exchanges of one operation:
\* __init__ has wake's two and the two setters', read() has the two getters'
\* and the wait (or the query).
Exchanges(o) ==
    CASE o = "__init__" -> 4
      [] o = "wake" -> 2
      [] o = "read" -> 3
      [] OTHER -> 1

C17_QueryNotInterleaved ==
    \A i \in 1..Len(wire) :
        (wire[i].call = "write" /\ i < Len(wire)) =>
            /\ wire[i + 1].call = "read"
            /\ wire[i + 1].t = wire[i].t

\* C18: ser.timeout is the default timeout of 2 s whenever no read is under
\* way, and the only read that runs with another timeout is the wait of
\* read(), the last read of that operation: the timeout of one call does not
\* reach a later read.
C18_TimeoutRestored ==
    /\ ser_timeout = 2
    /\ \A i \in 1..Len(reads) :
          reads[i].timeout # 2 =>
              /\ op = "read"
              /\ i = Len(reads)
              /\ i >= 3
              /\ written = <<ModeReadBytes, WorkPeriodReadBytes>>

\* C18 witness: read() waited with a timeout of 1801 s (work period 30) and
\* got no bytes; ser.timeout is 2 s again.
C18_Witness ==
    /\ Done("read")
    /\ reads[Len(reads)].timeout = 1801
    /\ reads[Len(reads)].empty
    /\ ser_timeout = 2

\* The step is a ser.read of a setting operation that gets a 10-byte DATA
\* frame with a right checksum.
ReadsDataWhileSetting ==
    /\ pc = "get_reply"
    /\ Truthy(op_id)
    /\ Len(reads') = Len(reads) + 1
    /\ Len(raw') = 10
    /\ raw'[2] = 192
    /\ ~BadChecksum(raw')

\* C19: a setting operation that reads a checksum-valid DATA frame discards
\* it and goes on to read the next frame, and what _get_reply returns to a
\* setting operation is never a decoded reading.
C19_DataDiscarded ==
    [][/\ ReadsDataWhileSetting =>
            /\ pc' = "get_reply"
            /\ stack' = stack
            /\ op_id' = op_id
            /\ written' = written
       /\ (pc' = "got_reply" /\ Truthy(op_id')) => reply'.t # "tuple"]_vars

\* C20: the reporting mode setter called with a value other than
\* ACTIVE_MODE (0x00) and QUERY_MODE (0x01) ends with ValueError, no command
\* written and no reply read.
C20_InvalidModeRejected ==
    (op = "reporting_mode_set" /\ arg.mode # <<0>> /\ arg.mode # <<1>>) =>
        /\ pc = "idle"
        /\ result = Throw("ValueError")
        /\ written = <<>>
        /\ reads = <<>>

\* C20 witness: the setter was called with the byte 0x02.
C20_Witness ==
    /\ Done("reporting_mode_set")
    /\ arg.mode = <<2>>
    /\ result.k = "raise"
    /\ written = <<>>

====
